---- MODULE Spec2Model ----
(***************************************************************************)
(* Model of the marine-map backend: the EXIF/GPS metadata extractor        *)
(* (backend/services/image_processor.py) and the thumbnail cache of the    *)
(* two service implementations (backend/main.py, backend/main_db.py),     *)
(* their image catalog and their favorite locations.                       *)
(*                                                                         *)
(* The specifications of the module:                                       *)
(*   SpecConvert  convert_to_degrees applied to one GPS tag value          *)
(*   SpecExtract  extract_image_metadata applied to one image              *)
(*   Spec         the thumbnail cache over a small file system             *)
(*   SpecRace     thumbnail requests served concurrently                   *)
(*   SpecResize   generate_thumbnail applied to one picture                *)
(*   SpecBatch    process_images_directory applied to one directory        *)
(*   SpecCatalog  the image catalog of either service under its requests   *)
(*   SpecGallery  the catalog together with the thumbnail cache            *)
(*   SpecRow      the database upload path applied to one image            *)
(*   SpecLocations  the favorite locations of both services, in step       *)
(***************************************************************************)
EXTENDS Integers, Sequences, FiniteSets, TLC

VARIABLES
    value, result,                         \* convert_to_degrees: argument, return value
    image, metadata, gps_data, lat, lon,   \* extract_image_metadata: argument, return value, intermediates
    originals, thumbnails, clock, response, \* thumbnail cache: FISHES_DIR, THUMBNAILS_DIR, time, last response
    inflight,                              \* thumbnail requests in progress, one per worker
    picture, thumb,                        \* generate_thumbnail: the image opened, the image saved
    directory, images_data,                \* process_images_directory: the entries listed, the records returned
    backend, started, fishes, catalog, reply, \* catalog: which service runs, startup done, FISHES_DIR, the stored records, last response
    locations_file, locations_table,       \* favorite locations: LOCATIONS_FILE of main.py, the locations table of main_db.py
    created, answer                        \* locations created so far, the answers of the two services to the last request

convertVars == <<value, result>>
extractVars == <<image, metadata, gps_data, lat, lon>>
serviceVars == <<originals, thumbnails, clock, response>>
raceVars == <<inflight>>
resizeVars == <<picture, thumb>>
batchVars == <<directory, images_data>>
catalogVars == <<backend, started, fishes, catalog, reply>>
locationVars == <<locations_file, locations_table, created, answer>>
vars == <<value, result, image, metadata, gps_data, lat, lon,
          originals, thumbnails, clock, response, inflight,
          picture, thumb, directory, images_data,
          backend, started, fishes, catalog, reply,
          locations_file, locations_table, created, answer>>

(***************************************************************************)
(* Python floats.  A finite float is h * (DBL_MAX / 3600) + v / Scale:     *)
(* v counts units of 1/Scale (exact for every input of the model, whose    *)
(* denominators divide 100), h counts units of DBL_MAX/3600 so that the    *)
(* largest finite double and its quotients by 60 and 3600 are values of    *)
(* the model.  When h # 0 the small part is absorbed by rounding (v = 0).  *)
(* A sum whose magnitude exceeds DBL_MAX overflows to an infinity.         *)
(***************************************************************************)
Scale == 3600 * 100

Fin(h, v) == [cls |-> "fin", h |-> h, v |-> v]
NaN == [cls |-> "nan", h |-> 0, v |-> 0]
PosInf == [cls |-> "inf", h |-> 1, v |-> 0]
NegInf == [cls |-> "inf", h |-> -1, v |-> 0]
MaxFloat == Fin(3600, 0)
Deg(n) == Fin(0, n * Scale)

isnan(x) == x.cls = "nan"
isinf(x) == x.cls = "inf"

\* int / int true division, denominator non-zero
TrueDiv(n, d) == Fin(0, (n * Scale) \div d)

\* x / 60.0 and x / 3600.0
FDiv(x, k) ==
    IF x.cls = "fin" THEN Fin(x.h \div k, x.v \div k) ELSE x

FAdd(x, y) ==
    IF isnan(x) \/ isnan(y) THEN NaN
    ELSE IF isinf(x) /\ isinf(y) THEN (IF x.h = y.h THEN x ELSE NaN)
    ELSE IF isinf(x) THEN x
    ELSE IF isinf(y) THEN y
    ELSE LET h == x.h + y.h IN
         IF h > 3600 THEN PosInf
         ELSE IF h < -3600 THEN NegInf
         ELSE IF h # 0 THEN Fin(h, 0)
         ELSE Fin(0, x.v + y.v)

FNeg(x) == [cls |-> x.cls, h |-> -x.h, v |-> -x.v]

\* x == 0.0 (true of -0.0 as well; false of NaN)
FIsZero(x) == x.cls = "fin" /\ x.h = 0 /\ x.v = 0

\* lo <= x <= hi for integer literals lo, hi (false of NaN)
FBetween(lo, x, hi) ==
    CASE x.cls = "nan" -> FALSE
      [] x.cls = "inf" -> FALSE
      [] OTHER -> x.h = 0 /\ lo * Scale <= x.v /\ x.v <= hi * Scale

(***************************************************************************)
(* Values of a GPS tag as PIL hands them over, and Python's None.          *)
(***************************************************************************)
None == [kind |-> "None"]
Some(x) == [kind |-> "float", x |-> x]

Rational(n, d) == [numerator |-> n, denominator |-> d]
RatTuple(d, m, s) == [kind |-> "rational", c |-> <<d, m, s>>]
FloatTuple(d, m, s) == [kind |-> "float", c |-> <<d, m, s>>]
EmptyTuple == [kind |-> "empty"]
\* a value on which the try block raises exc: a tuple shorter than three
\* (IndexError), a string (ValueError), a scalar (TypeError), a rational
\* followed by floats (AttributeError)
Malformed(exc) == [kind |-> "malformed", exc |-> exc]

ConvertCaught == {"TypeError", "ValueError", "ZeroDivisionError", "IndexError", "AttributeError"}

\* faulty variant: the zero-denominator guard is missing, the division fails
RationalComponentUnguarded(r) ==
    IF r.denominator # 0 THEN TrueDiv(r.numerator, r.denominator) ELSE NaN

RationalComponent(r) ==
    IF r.denominator # 0 THEN TrueDiv(r.numerator, r.denominator) ELSE Fin(0, 0)

ComponentsOf(v) ==
    IF v.kind = "rational"
    THEN [i \in 1..3 |-> RationalComponent(v.c[i])]
    ELSE v.c

\* faulty variant: minutes are not divided by 60
DmsSumMinutesAsDegrees(c) == FAdd(FAdd(c[1], c[2]), FDiv(c[3], 3600))

DmsSum(c) == FAdd(FAdd(c[1], FDiv(c[2], 60)), FDiv(c[3], 3600))

\* faulty variant: the final NaN/infinity check is missing
ResultCheckMissing(r) == Some(r)

ResultCheck(r) == IF isnan(r) \/ isinf(r) THEN None ELSE Some(r)

convert_to_degrees(v) ==
    IF v.kind \in {"None", "empty"} THEN None
    ELSE IF v.kind = "malformed"
         THEN (IF v.exc \in ConvertCaught THEN None ELSE [kind |-> "raise", exc |-> v.exc])
    ELSE LET c == ComponentsOf(v) IN
         IF \E i \in 1..3 : isnan(c[i]) \/ isinf(c[i]) THEN None
         ELSE ResultCheck(DmsSum(c))

(***************************************************************************)
(* Inputs of SpecConvert.                                                  *)
(***************************************************************************)
DegSteps == 4

DegNums == {k * 45 : k \in -DegSteps..DegSteps} \cup {16, 108}
MinNums == {0, 3, 12, 30}
SecNums == {0, 792, 1584}
Denominators == {0, 1, 100}
FloatComponents == {Deg(0), Deg(10), Deg(-10), NaN, PosInf, NegInf, MaxFloat, FNeg(MaxFloat)}

RationalsOf(nums) == {Rational(n, d) : n \in nums, d \in Denominators}

TagValues ==
    {None, EmptyTuple}
    \cup {Malformed(e) : e \in ConvertCaught \ {"ZeroDivisionError"}}
    \cup {RatTuple(d, m, s) : d \in RationalsOf(DegNums), m \in RationalsOf(MinNums),
                              s \in RationalsOf(SecNums)}
    \cup {FloatTuple(d, m, s) : d \in FloatComponents, m \in FloatComponents,
                                s \in FloatComponents}

(***************************************************************************)
(* Python dicts are functions from the keys present; str values are        *)
(* tagged so that str() is a conversion.                                   *)
(***************************************************************************)
Str(s) == [kind |-> "str", s |-> s]
PyInt(n) == [kind |-> "int", n |-> n]
Dict(d) == [kind |-> "dict", d |-> d]
Raise(exc) == [kind |-> "raise", exc |-> exc]
List(items) == [kind |-> "list", items |-> items]

\* str(value)
PyStr(v) == IF v.kind = "str" THEN v.s ELSE ToString(v.n)

\* str.lower() on the four tag names
Lower(t) ==
    CASE t = "Make" -> "make"
      [] t = "Model" -> "model"
      [] t = "DateTime" -> "datetime"
      [] t = "DateTimeOriginal" -> "datetimeoriginal"

\* faulty variant: Model is not copied
CopiedTagsWithoutModel == {"Make", "DateTime", "DateTimeOriginal"}

CopiedTags == {"Make", "Model", "DateTime", "DateTimeOriginal"}

\* os.path.basename
basename(path) == path.name

(***************************************************************************)
(* extract_gps_from_exif                                                   *)
(***************************************************************************)
\* "if not exif_data": _getexif() gave None or an empty dict
ExifEmpty(exif) ==
    \/ exif.kind = "none"
    \/ /\ exif.kind = "block"
       /\ \A t \in DOMAIN exif.tags : exif.tags[t] = None
       /\ \A k \in DOMAIN exif.gps : exif.gps[k] = None

\* "if not gps_info"
GpsInfoEmpty(exif) == \A k \in DOMAIN exif.gps : exif.gps[k] = None

\* the conversions of lines 30-31 are reached
ConvertReached(img) ==
    /\ img.decodable
    /\ img.reopen
    /\ img.exif.kind = "block"
    /\ ~ExifEmpty(img.exif)
    /\ ~GpsInfoEmpty(img.exif)

\* faulty variant: only a positive value is negated
HemisphereBySign(ref, flag, x) ==
    IF ref = Str(flag) /\ x.v > 0 THEN FNeg(x) ELSE x

\* "if ref == flag: x = -x"
Hemisphere(ref, flag, x) == IF ref = Str(flag) THEN FNeg(x) ELSE x

\* faulty variant: (0.0, 0.0) is not rejected
ZeroZeroAccepted(la, lo) == FALSE

ZeroZero(la, lo) == FIsZero(la) /\ FIsZero(lo)

\* faulty variant: the longitude range is not checked
InRangeLatOnly(la, lo) == FBetween(-90, la, 90)

InRange(la, lo) == FBetween(-90, la, 90) /\ FBetween(-180, lo, 180)

\* faulty variant: a latitude without a longitude is returned alone
GpsFromLatitudeAlone(gps, la0, lo0) ==
    IF la0.kind = "raise" THEN la0
    ELSE IF lo0.kind = "raise" THEN lo0
    ELSE IF la0 = None THEN None
    ELSE LET la == Hemisphere(gps.GPSLatitudeRef, "S", la0.x)
         IN  IF lo0 = None
             THEN (IF FBetween(-90, la, 90) THEN Dict([latitude |-> la]) ELSE None)
             ELSE LET lo == Hemisphere(gps.GPSLongitudeRef, "W", lo0.x)
                  IN  IF ZeroZero(la, lo) THEN None
                      ELSE IF ~InRange(la, lo) THEN None
                      ELSE Dict([latitude |-> la, longitude |-> lo])

\* lines 33-50, given the two conversions
GpsFromConversions(gps, la0, lo0) ==
    IF la0.kind = "raise" THEN la0
    ELSE IF lo0.kind = "raise" THEN lo0
    ELSE IF la0 = None \/ lo0 = None THEN None
    ELSE LET la == Hemisphere(gps.GPSLatitudeRef, "S", la0.x)
             lo == Hemisphere(gps.GPSLongitudeRef, "W", lo0.x)
         IN  IF ZeroZero(la, lo) THEN None
             ELSE IF ~InRange(la, lo) THEN None
             ELSE Dict([latitude |-> la, longitude |-> lo])

\* the try block, lines 12-50
extract_gps_body(img) ==
    IF ~img.reopen THEN Raise("OSError")
    ELSE IF img.exif.kind = "corrupt" THEN Raise("SyntaxError")
    ELSE IF ExifEmpty(img.exif) THEN None
    ELSE IF GpsInfoEmpty(img.exif) THEN None
    ELSE GpsFromConversions(img.exif.gps,
                            convert_to_degrees(img.exif.gps.GPSLatitude),
                            convert_to_degrees(img.exif.gps.GPSLongitude))

\* "except Exception: return None"
GpsHandler(r) == IF r.kind = "raise" THEN None ELSE r

extract_gps_from_exif(img) == GpsHandler(extract_gps_body(img))

(***************************************************************************)
(* extract_image_metadata                                                  *)
(***************************************************************************)
TagEntries(exif) ==
    LET present == {t \in CopiedTags : exif.kind = "block" /\ exif.tags[t] # None}
    IN  [k \in {Lower(t) : t \in present} |->
            PyStr(exif.tags[CHOOSE t \in present : Lower(t) = k])]

\* faulty variant: coordinates found in the EXIF mark the record as tagged
UpdateWithGpsTagged(md, gps) ==
    IF gps = None THEN md ELSE [manually_tagged |-> TRUE] @@ gps.d @@ md

\* metadata.update(gps_data) under "if gps_data"
UpdateWithGps(md, gps) == IF gps = None THEN md ELSE gps.d @@ md

\* the try block, lines 91-113
extract_metadata_body(img) ==
    IF ~img.decodable THEN Raise("UnidentifiedImageError")
    ELSE IF img.exif.kind = "corrupt" THEN Raise("SyntaxError")
    ELSE LET base == [filename |-> basename(img.path), path |-> img.path,
                      width |-> img.width, height |-> img.height]
             gps == extract_gps_from_exif(img)
         IN  IF gps.kind = "raise" THEN gps
             ELSE Dict(UpdateWithGps(TagEntries(img.exif) @@ base, gps))

\* faulty variant: the error record null-fills width and height
MetadataHandlerKeepsSize(img, r) ==
    IF r.kind = "raise"
    THEN Dict([filename |-> basename(img.path), path |-> img.path, error |-> r.exc,
               width |-> None, height |-> None])
    ELSE r

\* "except Exception as e", lines 114-120
MetadataHandler(img, r) ==
    IF r.kind = "raise"
    THEN Dict([filename |-> basename(img.path), path |-> img.path, error |-> r.exc])
    ELSE r

extract_image_metadata(img) == MetadataHandler(img, extract_metadata_body(img))

(***************************************************************************)
(* Inputs of SpecExtract.                                                  *)
(***************************************************************************)
ZeroR == Rational(0, 1)
ImgDegNums == {-10, 0, 10, 90, 180, 270}

ImgCoordValues ==
    {None, Malformed("IndexError")}
    \cup {RatTuple(Rational(n, 1), ZeroR, ZeroR) : n \in ImgDegNums}
    \cup {RatTuple(Rational(10, 1), Rational(30, 1), ZeroR)}
    \cup {RatTuple(Rational(10, 0), ZeroR, ZeroR)}
    \cup {FloatTuple(NaN, Deg(0), Deg(0)), FloatTuple(MaxFloat, MaxFloat, Deg(0)),
          FloatTuple(MaxFloat, Deg(0), Deg(0))}

GpsBlocks ==
    [GPSLatitude : ImgCoordValues, GPSLatitudeRef : {None, Str("N"), Str("S")},
     GPSLongitude : ImgCoordValues, GPSLongitudeRef : {None, Str("E"), Str("W")}]

TagBlocks ==
    [Make : {None, Str("Canon")}, Model : {None, PyInt(7)},
     DateTime : {None, Str("2024:05:01 10:00:00")},
     DateTimeOriginal : {None, Str("2024:04:30 09:00:00")}]

ExifBlocks ==
    {[kind |-> "none"], [kind |-> "corrupt"]}
    \cup {[kind |-> "block", tags |-> t, gps |-> g] : t \in TagBlocks, g \in GpsBlocks}

ImagePath == [dir |-> "fishes", name |-> "a.jpg"]

MkImage(dec, re, exif) ==
    [path |-> ImagePath, decodable |-> dec, reopen |-> re, exif |-> exif,
     width |-> 640, height |-> 480]

\* an undecodable file has no readable EXIF
Images ==
    {MkImage(FALSE, FALSE, [kind |-> "none"])}
    \cup {MkImage(TRUE, re, e) : re \in BOOLEAN, e \in ExifBlocks}

NotCalled == [kind |-> "not called"]

(***************************************************************************)
(* The thumbnail cache: FISHES_DIR and THUMBNAILS_DIR as maps from names   *)
(* to files, and get_thumbnail over them.                                  *)
(***************************************************************************)
MaxTime == 1

File(stem, suffix) == [stem |-> stem, suffix |-> suffix]
Filenames == {File("a", ".png"), File("a", ".jpg"), File("b", ".jpeg")}
Suffixes == {f.suffix : f \in Filenames} \cup {".jpg"}

\* str.lower() on a file suffix
suffix_lower(s) ==
    CASE s = ".JPG" -> ".jpg"
      [] s = ".JPEG" -> ".jpeg"
      [] s = ".PNG" -> ".png"
      [] s = ".HEIC" -> ".heic"
      [] OTHER -> s

\* THUMBNAILS_DIR / f"thumb_{filename}", its suffix forced to .jpg unless
\* it is .jpg or .jpeg already
thumbnail_path(f) ==
    LET p == [prefix |-> "thumb_", stem |-> f.stem, suffix |-> f.suffix]
    IN  IF suffix_lower(p.suffix) \notin {".jpg", ".jpeg"}
        THEN [p EXCEPT !.suffix = ".jpg"]
        ELSE p

ThumbPaths == {[prefix |-> "thumb_", stem |-> f.stem, suffix |-> x] : f \in Filenames, x \in Suffixes}

NoOriginal == [exists |-> FALSE, mtime |-> 0, decodable |-> FALSE]
\* a file of THUMBNAILS_DIR: its mtime, whether it is a whole JPEG, and the
\* original it was rendered from with the mtime that original had then
NoThumbnail ==
    [exists |-> FALSE, mtime |-> 0, complete |-> FALSE, source |-> None, source_mtime |-> 0]
Rendition(f, orig, now, complete) ==
    [exists |-> TRUE, mtime |-> now, complete |-> complete,
     source |-> f, source_mtime |-> orig.mtime]

\* faulty variant: the original is not looked for
image_path_exists_unchecked(orig) == TRUE

\* line 154: image_path.exists()
image_path_exists(orig) == orig.exists

\* faulty variant: an artifact as old as the original counts as stale
thumbnail_valid_strictly_newer(th, orig) == th.exists /\ th.mtime > orig.mtime

\* faulty variant: any artifact that exists is reused
thumbnail_valid_ignores_mtime(th, orig) == th.exists

\* lines 164-168: the artifact exists and is not older than the original
thumbnail_valid(th, orig) == th.exists /\ th.mtime >= orig.mtime

\* generate_thumbnail(image_path, thumbnail_path) at time now: [ok, file],
\* file being what is at thumbnail_path afterwards.  An original that cannot
\* be decoded fails before anything is written.  fault = "encode": img.save
\* raises after opening the target for writing; PIL removes the target if
\* that save created it and leaves it truncated if it was there before.
generate_thumbnail(f, orig, th, now, fault) ==
    IF ~orig.decodable THEN [ok |-> FALSE, file |-> th]
    ELSE IF fault = "encode"
    THEN [ok |-> FALSE,
          file |-> IF th.exists THEN Rendition(f, orig, now, FALSE) ELSE NoThumbnail]
    ELSE [ok |-> TRUE, file |-> Rendition(f, orig, now, TRUE)]

ThumbnailResponse(f, status, called, body) ==
    [kind |-> "thumbnail", filename |-> f, status |-> status,
     generate_called |-> called, body |-> body]

\* GET /api/thumbnails/{filename}
get_thumbnail(f) ==
    LET orig == originals[f]
        tp == thumbnail_path(f)
        th == thumbnails[tp]
    IN  IF ~image_path_exists(orig)
        THEN /\ response' = ThumbnailResponse(f, 404, FALSE, NoThumbnail)
             /\ UNCHANGED <<originals, thumbnails, clock>>
        ELSE IF thumbnail_valid(th, orig)
        THEN /\ response' = ThumbnailResponse(f, 200, FALSE, th)
             /\ UNCHANGED <<originals, thumbnails, clock>>
        ELSE \E fault \in {"none", "encode"} :
               LET g == generate_thumbnail(f, orig, th, clock, fault)
               IN  /\ thumbnails' = [thumbnails EXCEPT ![tp] = g.file]
                   /\ response' = IF g.ok
                                  THEN ThumbnailResponse(f, 200, TRUE, g.file)
                                  ELSE ThumbnailResponse(f, 500, TRUE, NoThumbnail)
                   /\ UNCHANGED <<originals, clock>>

\* a file is written into FISHES_DIR, or an existing one rewritten
PlaceOriginal(f, decodable) ==
    /\ originals' = [originals EXCEPT ![f] =
                        [exists |-> TRUE, mtime |-> clock, decodable |-> decodable]]
    /\ response' = NotCalled
    /\ UNCHANGED <<thumbnails, clock>>

\* a file is removed from FISHES_DIR
RemoveOriginal(f) ==
    /\ originals[f].exists
    /\ originals' = [originals EXCEPT ![f] = NoOriginal]
    /\ response' = NotCalled
    /\ UNCHANGED <<thumbnails, clock>>

\* the mtime of a file of FISHES_DIR is set to t (os.utime, touch -d, a copy
\* that preserves times)
TouchOriginal(f, t) ==
    /\ originals[f].exists
    /\ originals[f].mtime # t
    /\ originals' = [originals EXCEPT ![f].mtime = t]
    /\ response' = NotCalled
    /\ UNCHANGED <<thumbnails, clock>>

Tick ==
    /\ clock < MaxTime
    /\ clock' = clock + 1
    /\ response' = NotCalled
    /\ UNCHANGED <<originals, thumbnails>>

(***************************************************************************)
(* Requests served concurrently (several worker processes over the same    *)
(* directories).  A request is the code of get_thumbnail cut at its file   *)
(* system calls: the checks, the save opening its target, the save         *)
(* finishing, the response reading the file.                               *)
(***************************************************************************)
Workers == {"w1", "w2"}
IdleWorker == [pc |-> "idle", filename |-> None, status |-> 0, served |-> NoThumbnail]
NoRequests == [w \in Workers |-> IdleWorker]
Writing(w, p) ==
    inflight[w].pc = "write" /\ thumbnail_path(inflight[w].filename) = p

\* lines 153-168: the request arrives and looks at the two directories
Begin(w, f) ==
    /\ inflight[w].pc = "idle"
    /\ inflight' = [inflight EXCEPT ![w] =
          IF ~image_path_exists(originals[f])
          THEN [pc |-> "done", filename |-> f, status |-> 404, served |-> NoThumbnail]
          ELSE IF thumbnail_valid(thumbnails[thumbnail_path(f)], originals[f])
          THEN [pc |-> "send", filename |-> f, status |-> 0, served |-> NoThumbnail]
          ELSE [pc |-> "render", filename |-> f, status |-> 0, served |-> NoThumbnail]]
    /\ UNCHANGED <<originals, thumbnails, clock, response>>

\* lines 74-87: the original is decoded and scaled, and img.save opens
\* thumbnail_path for writing, which truncates what is there
OpenTarget(w) ==
    LET f == inflight[w].filename
    IN  /\ inflight[w].pc = "render"
        /\ IF originals[f].decodable
           THEN /\ thumbnails' = [thumbnails EXCEPT ![thumbnail_path(f)] =
                                     Rendition(f, originals[f], clock, FALSE)]
                /\ inflight' = [inflight EXCEPT ![w].pc = "write"]
           ELSE /\ thumbnails' = thumbnails
                /\ inflight' = [inflight EXCEPT ![w].pc = "done", ![w].status = 500]
        /\ UNCHANGED <<originals, clock, response>>

\* line 87: img.save has written its last byte.  While another save has the
\* same target open, that save may have truncated part of what this one
\* wrote, so the file is whole or not.
FinishWrite(w) ==
    LET f == inflight[w].filename
        p == thumbnail_path(f)
    IN  /\ inflight[w].pc = "write"
        /\ \E whole \in BOOLEAN :
             /\ (\A v \in Workers \ {w} : ~Writing(v, p)) => whole
             /\ thumbnails' = [thumbnails EXCEPT ![p] =
                                  Rendition(f, originals[f], clock, whole)]
        /\ inflight' = [inflight EXCEPT ![w].pc = "send"]
        /\ UNCHANGED <<originals, clock, response>>

\* lines 177-181: FileResponse sends what is at thumbnail_path
Send(w) ==
    /\ inflight[w].pc = "send"
    /\ inflight' = [inflight EXCEPT ![w].pc = "done", ![w].status = 200,
                       ![w].served = thumbnails[thumbnail_path(inflight[w].filename)]]
    /\ UNCHANGED <<originals, thumbnails, clock, response>>

\* the response is complete; the worker takes the next request
Return(w) ==
    /\ inflight[w].pc = "done"
    /\ inflight' = [inflight EXCEPT ![w] = IdleWorker]
    /\ UNCHANGED <<originals, thumbnails, clock, response>>

(***************************************************************************)
(* What generate_thumbnail renders: the mode and the size of the image it  *)
(* saves, from the mode and the size of the image it opened.               *)
(***************************************************************************)
ThumbnailSide == 400

Abs(n) == IF n < 0 THEN -n ELSE n
Max(a, b) == IF a >= b THEN a ELSE b
Ceil(n, d) == (n + d - 1) \div d

\* PIL's round_aspect for the width: of floor and ceil of side * w / h the
\* one whose ratio to side is nearer to w / h, floor on a tie, at least 1
RoundedWidth(w, h, side) ==
    LET lo == (side * w) \div h
        hi == Ceil(side * w, h)
        key(n) == Abs(w * side - n * h)
    IN  Max(IF key(lo) <= key(hi) THEN lo ELSE hi, 1)

\* PIL's round_aspect for the height: of floor and ceil of side * h / w the
\* one n with side / n nearer to w / h (0 counts as nearest), at least 1
RoundedHeight(w, h, side) ==
    LET lo == (side * h) \div w
        hi == Ceil(side * h, w)
        key(n) == Abs(w * n - side * h)
    IN  Max(IF lo = 0 \/ key(lo) * hi <= key(hi) * lo THEN lo ELSE hi, 1)

\* faulty variant: img.resize(size), which fills the box
resize_to_box(w, h, side) == [width |-> side, height |-> side]

\* line 84: img.thumbnail(size, LANCZOS) on a w x h image; an image inside
\* the box is left as it is
thumbnail(w, h, side) ==
    IF side >= w /\ side >= h THEN [width |-> w, height |-> h]
    ELSE IF h >= w
    THEN [width |-> RoundedWidth(w, h, side), height |-> side]
    ELSE [width |-> side, height |-> RoundedHeight(w, h, side)]

\* lines 76-81: images with transparency or a palette are pasted on white
flattened_mode(mode) == IF mode \in {"RGBA", "LA", "P"} THEN "RGB" ELSE mode

\* the modes PIL's JPEG encoder writes
JpegModes == {"1", "L", "RGB", "RGBX", "CMYK", "YCbCr"}

NotSaved == [ok |-> FALSE, mode |-> "", width |-> 0, height |-> 0]

\* lines 73-91 on one image: whether it returns True, and what it saved
rendered(pic) ==
    IF ~pic.decodable THEN NotSaved
    ELSE LET mode == flattened_mode(pic.mode)
             size == thumbnail(pic.width, pic.height, ThumbnailSide)
         IN  IF mode \notin JpegModes THEN NotSaved
             ELSE [ok |-> TRUE, mode |-> mode, width |-> size.width, height |-> size.height]

Sides == {1, 2, 300, 399, 400, 401, 1000, 4000}
PictureModes == {"RGB", "RGBA", "LA", "P", "L", "I;16"}
Pictures ==
    {[kind |-> "picture", decodable |-> TRUE, mode |-> m, width |-> w, height |-> h] :
        m \in PictureModes, w \in Sides, h \in Sides}
    \cup {[kind |-> "picture", decodable |-> FALSE, mode |-> "", width |-> 0, height |-> 0]}

(***************************************************************************)
(* process_images_directory.  A directory is the sequence of its entries   *)
(* in the order iterdir yields them; an entry is a name and what the file  *)
(* holds (a subdirectory or a file that is no image is undecodable).       *)
(***************************************************************************)
MaxEntries == 2

image_extensions == {".jpg", ".jpeg", ".png", ".heic"}

\* faulty variant: the suffix is compared as it is spelled
is_image_file_case_sensitive(name) == name.suffix \in image_extensions

\* line 133: image_file.suffix.lower() in image_extensions
is_image_file(name) == suffix_lower(name.suffix) \in image_extensions

\* the file called name in FISHES_DIR, holding the image img
PathOf(name) == [dir |-> "fishes", name |-> name]
Stored(name, img) == [img EXCEPT !.path = PathOf(name)]

\* lines 125-136: the records of the entries that are image files, in order
process_images_directory(entries) ==
    LET kept == SelectSeq(entries, LAMBDA e : is_image_file(e.name))
    IN  List([i \in 1..Len(kept) |->
                extract_image_metadata(Stored(kept[i].name, kept[i].holds))])

Unreadable == MkImage(FALSE, FALSE, [kind |-> "none"])
Plain == MkImage(TRUE, TRUE, [kind |-> "none"])
\* a photo taken at la degrees north, lo degrees east
Photo(la, lo) ==
    MkImage(TRUE, TRUE,
        [kind |-> "block",
         tags |-> [Make |-> Str("Canon"), Model |-> None,
                   DateTime |-> Str("2024:05:01 10:00:00"), DateTimeOriginal |-> None],
         gps |-> [GPSLatitude |-> RatTuple(Rational(la, 1), ZeroR, ZeroR),
                  GPSLatitudeRef |-> Str("N"),
                  GPSLongitude |-> RatTuple(Rational(lo, 1), ZeroR, ZeroR),
                  GPSLongitudeRef |-> Str("E")]])

EntryNames == {File("a", x) : x \in {".jpg", ".JPG", ".jpeg", ".PNG", ".heic", ".gif", ""}}
Entries == [name : EntryNames, holds : {Unreadable, Plain, Photo(10, 20)}]
Directories ==
    {d \in UNION {[1..n -> Entries] : n \in 0..MaxEntries} :
        \A i, j \in DOMAIN d : d[i].name = d[j].name => i = j}

(***************************************************************************)
(* The image catalog.  backend says which service runs: "json" keeps the   *)
(* records as the list of objects in METADATA_FILE (main.py), "db" as the  *)
(* rows of the images table in insertion order (main_db.py, models.py).    *)
(* A JSON object is a function from the keys it has, METADATA_FILE holds   *)
(* the tokens json.dump writes for it; a row has every column, holding     *)
(* None for NULL and NotNull(v) otherwise.                                 *)
(***************************************************************************)
MaxRecords == 2

CatalogNames == {File("a", ".png"), File("b", ".jpeg")}
\* the filename of an upload as the client sends it: a bare name, or the
\* same name behind "./"
Dotted(name) == [dir |-> ".", stem |-> name.stem, suffix |-> name.suffix]
UploadFilenames == CatalogNames \cup {Dotted(n) : n \in CatalogNames}
\* FISHES_DIR / file.filename: pathlib drops the "." component
file_path(filename) == PathOf(File(filename.stem, filename.suffix))
\* what a file of FISHES_DIR holds, by name
NoFile == "no file"
Contents == {"unreadable", "plain", "photo"}
ImageOf(holds) ==
    CASE holds = "unreadable" -> Unreadable
      [] holds = "plain" -> Plain
      [] holds = "photo" -> Photo(10, 20)
\* the bodies of a PATCH: either coordinate may be missing (None), and the
\* values include 0.0 and a latitude beyond the pole
GpsBodies ==
    {[latitude |-> None, longitude |-> None],
     [latitude |-> Deg(30), longitude |-> None],
     [latitude |-> Deg(30), longitude |-> Deg(40)],
     [latitude |-> Deg(0), longitude |-> Deg(0)],
     [latitude |-> Deg(91), longitude |-> Deg(40)]}

NoCatalog == [exists |-> FALSE, records |-> << >>]
EmptyTable == [exists |-> TRUE, records |-> << >>]
NotNull(v) == [kind |-> "value", v |-> v]
Columns == {"filename", "path", "width", "height", "make", "model", "datetime",
            "datetimeoriginal", "latitude", "longitude", "manually_tagged"}

Reply(kind, f, status) == [kind |-> kind, filename |-> f, status |-> status]

\* img.get("filename") of an object, Image.filename of a row
FilenameOf(r) == IF backend = "db" THEN r.filename.v ELSE r.filename

\* the index of the first record called name, 0 when there is none
IndexOf(all, name) ==
    IF \E i \in DOMAIN all : FilenameOf(all[i]) = name
    THEN CHOOSE i \in DOMAIN all :
            /\ FilenameOf(all[i]) = name
            /\ \A j \in 1..(i - 1) : FilenameOf(all[j]) # name
    ELSE 0

RemoveAt(all, i) == SubSeq(all, 1, i - 1) \o SubSeq(all, i + 1, Len(all))

\* The text json.dump writes, as the tokens json.load reads.  The encoder
\* goes by the type of a value; in a catalog record the type follows from
\* the key: the coordinates are floats or None, manually_tagged is a bool,
\* width and height are ints, every other value is a str.
FloatKeys == {"latitude", "longitude"}
BoolKeys == {"manually_tagged"}
IntKeys == {"width", "height"}

JsonNull == [json |-> "null"]
JsonString(s) == [json |-> "string", s |-> s]
JsonInt(n) == [json |-> "int", digits |-> n]
JsonBool(b) == [json |-> IF b THEN "true" ELSE "false"]

\* float.__repr__: the shortest decimal literal that reads back as the same
\* float, a sign, a whole part and a fraction; NaN, Infinity and -Infinity
\* for the values that are not finite (allow_nan is left True)
float_repr(x) ==
    CASE isnan(x) -> [json |-> "NaN"]
      [] isinf(x) -> [json |-> "Infinity", negative |-> x.h < 0]
      [] OTHER ->
            [json |-> "float", negative |-> x.h < 0 \/ x.v < 0,
             huge |-> Abs(x.h),
             whole |-> Abs(x.v) \div Scale, fraction |-> Abs(x.v) % Scale]

\* float(literal) of the decoder
float_of_literal(tok) ==
    CASE tok.json = "NaN" -> NaN
      [] tok.json = "Infinity" -> IF tok.negative THEN NegInf ELSE PosInf
      [] OTHER ->
            LET x == Fin(tok.huge, tok.whole * Scale + tok.fraction)
            IN  IF tok.negative THEN FNeg(x) ELSE x

json_dump_value(key, v) ==
    IF key \in FloatKeys THEN (IF v = None THEN JsonNull ELSE float_repr(v))
    ELSE IF key \in BoolKeys THEN JsonBool(v)
    ELSE IF key \in IntKeys THEN JsonInt(v)
    ELSE JsonString(v)

json_load_value(tok) ==
    CASE tok.json = "null" -> None
      [] tok.json = "string" -> tok.s
      [] tok.json = "int" -> tok.digits
      [] tok.json = "true" -> TRUE
      [] tok.json = "false" -> FALSE
      [] OTHER -> float_of_literal(tok)

\* faulty variant: the error of a record is not written
json_dump_object_without_error(d) ==
    [k \in DOMAIN d \ {"error"} |-> json_dump_value(k, d[k])]

json_dump_object(d) == [k \in DOMAIN d |-> json_dump_value(k, d[k])]
json_load_object(text) == [k \in DOMAIN text |-> json_load_value(text[k])]

\* json.dump(data, f, indent=2) and json.load(f) of a list of objects
json_dump(data) == [i \in DOMAIN data |-> json_dump_object(data[i])]
json_load(text) == [i \in DOMAIN text |-> json_load_object(text[i])]

\* load_metadata: the list in METADATA_FILE, [] when the file is missing
load_metadata == IF catalog.exists THEN json_load(catalog.records) ELSE << >>

\* save_metadata
save_metadata(all) == [exists |-> TRUE, records |-> json_dump(all)]

\* the rows of the images table, and the table after a commit
query_images == catalog.records
commit_images(rows) == [exists |-> TRUE, records |-> rows]

\* the records of the running service and their replacement, whichever the
\* store
stored_records == IF backend = "db" THEN query_images ELSE load_metadata
store_records(all) == IF backend = "db" THEN commit_images(all) ELSE save_metadata(all)

\* main.py 204-213: the record whose filename equals file.filename is
\* replaced, else the new one is appended
json_upsert(all, filename, md) ==
    LET existing_index == IndexOf(all, filename)
    IN  IF existing_index # 0 THEN [all EXCEPT ![existing_index] = md]
        ELSE Append(all, md)

\* main_db.py 71-78 on a str
parse_datetime(dt_string) ==
    IF dt_string \in {"", "--"} THEN None ELSE NotNull([kind |-> "datetime", text |-> dt_string])

\* the value a column takes from a key of the extracted metadata
ColumnValue(key, v) ==
    IF key \in {"datetime", "datetimeoriginal"} THEN parse_datetime(v) ELSE NotNull(v)

\* main_db.py 196-200: every key of metadata is set on the row, the other
\* columns keep what they hold ("error" is no column)
db_update(existing, md) ==
    [k \in Columns |-> IF k \in DOMAIN md THEN ColumnValue(k, md[k]) ELSE existing[k]]

\* main_db.py 206-218: Image(...) from metadata.get of every column
new_image(md) ==
    [k \in Columns |->
        IF k \in DOMAIN md THEN ColumnValue(k, md[k])
        ELSE IF k = "manually_tagged" THEN NotNull(FALSE)
        ELSE None]

\* db.add + db.commit under the unique constraint on filename (models.py 20)
db_insert(rows, row) ==
    IF \E i \in DOMAIN rows : rows[i].filename = row.filename
    THEN Raise("IntegrityError")
    ELSE List(Append(rows, row))

\* main_db.py 193-222: the row whose filename equals file.filename is
\* updated, else a new one is inserted
db_upsert(rows, filename, md) ==
    LET existing_index == IndexOf(rows, filename)
    IN  IF existing_index # 0
        THEN List([rows EXCEPT ![existing_index] = db_update(rows[existing_index], md)])
        ELSE db_insert(rows, new_image(md))

\* update_image_gps on the record found: both coordinates are taken from
\* the body with dict.get, and the record is marked
json_tagged(img, body) ==
    [k \in DOMAIN img \cup {"latitude", "longitude", "manually_tagged"} |->
        CASE k = "latitude" -> body.latitude
          [] k = "longitude" -> body.longitude
          [] k = "manually_tagged" -> TRUE
          [] OTHER -> img[k]]

Nullable(v) == IF v = None THEN None ELSE NotNull(v)

db_tagged(row, body) ==
    [row EXCEPT !.latitude = Nullable(body.latitude),
                !.longitude = Nullable(body.longitude),
                !.manually_tagged = NotNull(TRUE)]

\* Column(Numeric(p, 8)) read back: the Decimal with eight decimal places
\* nearest to the float that was bound, as a sign, a whole part and a
\* fraction in units of 10^-8.  The rows of the model keep the value as it
\* was bound; the column type acts where the value is read.
numeric_8(x) ==
    LET a == Abs(x.v)
        r == a % Scale
    IN  [kind |-> "decimal", negative |-> x.v < 0,
         whole |-> a \div Scale, e8 |-> (r * 5000 + 9) \div 18]

\* Decimal.__bool__: any Decimal but zero
decimal_bool(d) == d.whole # 0 \/ d.e8 # 0

\* float(Decimal): the float nearest to the decimal, the float that was
\* bound when eight decimal places hold it exactly
float_of_decimal(d) ==
    IF (d.e8 * 9) % 2500 = 0
    THEN LET x == Fin(0, d.whole * Scale + (d.e8 * 9) \div 2500)
         IN  IF d.negative THEN FNeg(x) ELSE x
    ELSE [cls |-> "fin", negative |-> d.negative, whole |-> d.whole, e8 |-> d.e8]

\* models.py 45-46: float(self.latitude) if self.latitude else None
coordinate_to_dict(column) ==
    IF column = None THEN None
    ELSE IF decimal_bool(numeric_8(column.v)) THEN float_of_decimal(numeric_8(column.v))
    ELSE None

\* models.py 43-44: self.datetime.isoformat() if self.datetime else None
datetime_to_dict(column) ==
    IF column = None THEN None ELSE [kind |-> "isoformat", of |-> column.v.text]

\* Image.to_dict
to_dict(row) ==
    [k \in Columns |->
        IF k \in {"latitude", "longitude"} THEN coordinate_to_dict(row[k])
        ELSE IF k \in {"datetime", "datetimeoriginal"} THEN datetime_to_dict(row[k])
        ELSE IF row[k] = None THEN None
        ELSE row[k].v]

\* the orders in which iterdir may list the files of FISHES_DIR
Present == {n \in DOMAIN fishes : fishes[n] # NoFile}
Listings ==
    {[i \in DOMAIN order |-> [name |-> order[i], holds |-> ImageOf(fishes[order[i]])]] :
        order \in {o \in [1..Cardinality(Present) -> Present] :
                      \A i, j \in DOMAIN o : o[i] = o[j] => i = j}}

\* faulty variant: the records that carry a manual override are kept
ProcessFishesKeepingOverrides ==
    \E listing \in Listings :
        LET images == process_images_directory(listing).items
            old == load_metadata
            kept(md) ==
                IF \E j \in DOMAIN old :
                      /\ old[j].filename = md.filename
                      /\ "manually_tagged" \in DOMAIN old[j]
                THEN old[CHOOSE j \in DOMAIN old :
                            /\ old[j].filename = md.filename
                            /\ "manually_tagged" \in DOMAIN old[j]]
                ELSE md
        IN  catalog' = save_metadata([i \in DOMAIN images |-> kept(images[i].d)])

\* process_images_directory(FISHES_DIR, METADATA_FILE), lines 137-139
\* included: the records are written over METADATA_FILE
ProcessFishes ==
    \E listing \in Listings :
        LET images == process_images_directory(listing).items
        IN  catalog' = save_metadata([i \in DOMAIN images |-> images[i].d])

\* startup_event: main.py 94-103 processes FISHES_DIR when there is no
\* METADATA_FILE; main_db.py 80-89 only creates the tables
startup_event ==
    /\ ~started
    /\ started' = TRUE
    /\ IF backend = "json" /\ ~catalog.exists THEN ProcessFishes ELSE catalog' = catalog
    /\ reply' = Reply("startup", None, 200)
    /\ UNCHANGED <<backend, fishes, thumbnails>>

\* extract_image_metadata(str(file_path)) for every file an upload can write
UploadedMetadata ==
    [n \in Filenames, holds \in Contents |->
        extract_image_metadata(Stored(n, ImageOf(holds))).d]

\* POST /api/admin/upload of a file called filename that holds holds;
\* fault = "write" means writing it raises.  The except branch unlinks
\* file_path and answers 500.
upload_image(filename, content_type, holds) ==
    LET path == file_path(filename)
        f == basename(path)
    IN  /\ started
        /\ IF content_type # "image"
           THEN /\ reply' = Reply("upload", filename, 400)
                /\ UNCHANGED <<fishes, catalog>>
           ELSE \E fault \in {"none", "write"} :
                IF fault = "write"
                THEN /\ fishes' = [fishes EXCEPT ![f] = NoFile]
                     /\ reply' = Reply("upload", filename, 500)
                     /\ UNCHANGED catalog
                ELSE LET md == UploadedMetadata[f, holds]
                         stored == IF backend = "db"
                                   THEN db_upsert(query_images, filename, md)
                                   ELSE List(json_upsert(load_metadata, filename, md))
                     IN  IF stored.kind = "raise"
                         THEN /\ fishes' = [fishes EXCEPT ![f] = NoFile]
                              /\ reply' = Reply("upload", filename, 500)
                              /\ UNCHANGED catalog
                         ELSE /\ Len(stored.items) <= MaxRecords
                              /\ fishes' = [fishes EXCEPT ![f] = holds]
                              /\ catalog' = store_records(stored.items)
                              /\ reply' = Reply("upload", filename, 200)
        /\ UNCHANGED <<backend, started, thumbnails>>

\* POST /api/admin/reprocess, an endpoint of main.py only
reprocess_images ==
    /\ started
    /\ backend = "json"
    /\ ProcessFishes
    /\ reply' = Reply("reprocess", None, 200)
    /\ UNCHANGED <<backend, started, fishes, thumbnails>>

\* GET /api/images/{filename}: the first record of that filename, the
\* object itself or to_dict of the row
get_image_details(f) ==
    LET all == stored_records
        i == IndexOf(all, f)
    IN  /\ started
        /\ reply' = IF i = 0 THEN Reply("details", f, 404)
                     ELSE [kind |-> "details", filename |-> f, status |-> 200,
                           body |-> IF backend = "db" THEN to_dict(all[i]) ELSE all[i]]
        /\ UNCHANGED <<backend, started, fishes, thumbnails, catalog>>

\* PATCH /api/images/{filename}/gps
update_image_gps(f, body) ==
    LET all == stored_records
        i == IndexOf(all, f)
    IN  /\ started
        /\ IF i = 0
           THEN /\ reply' = Reply("gps", f, 404)
                /\ UNCHANGED catalog
           ELSE /\ catalog' = store_records(
                       [all EXCEPT ![i] = IF backend = "db" THEN db_tagged(all[i], body)
                                          ELSE json_tagged(all[i], body)])
                /\ reply' = Reply("gps", f, 200)
        /\ UNCHANGED <<backend, started, fishes, thumbnails>>

\* faulty variant: the files are unlinked before the record is looked for
delete_image_unlinking_first(f) ==
    LET all == stored_records
        i == IndexOf(all, f)
    IN  /\ started
        /\ fishes' = [fishes EXCEPT ![f] = NoFile]
        /\ thumbnails' = [thumbnails EXCEPT ![thumbnail_path(f)] = NoThumbnail]
        /\ IF i = 0
           THEN /\ reply' = Reply("delete", f, 404)
                /\ UNCHANGED catalog
           ELSE /\ catalog' = store_records(RemoveAt(all, i))
                /\ reply' = Reply("delete", f, 200)
        /\ UNCHANGED <<backend, started>>

\* DELETE /api/images/{filename}
delete_image(f) ==
    LET all == stored_records
        i == IndexOf(all, f)
    IN  /\ started
        /\ IF i = 0
           THEN /\ reply' = Reply("delete", f, 404)
                /\ UNCHANGED <<fishes, thumbnails, catalog>>
           ELSE /\ fishes' = [fishes EXCEPT ![f] = NoFile]
                /\ thumbnails' = [thumbnails EXCEPT ![thumbnail_path(f)] = NoThumbnail]
                /\ catalog' = store_records(RemoveAt(all, i))
                /\ reply' = Reply("delete", f, 200)
        /\ UNCHANGED <<backend, started>>

(***************************************************************************)
(* Favorite locations.  The same requests go to main.py, which keeps the   *)
(* locations as the objects of LOCATIONS_FILE, and to main_db.py, which    *)
(* keeps them as the rows of the locations table.  The n-th location       *)
(* created is known to main.py as "loc-" and eight hex digits of a uuid4   *)
(* and to main_db.py by a uuid4; both are written by the ordinal n, and a  *)
(* request names a location by that ordinal.                               *)
(***************************************************************************)
MaxLocations == 2

JsonId(n) == [scheme |-> "loc-", n |-> n]
DbId(n) == [scheme |-> "uuid", n |-> n]

\* request bodies: name, latitude and longitude, with or without a description
LocationNames == {"reef", "bay"}
LocationBodies ==
    {[name |-> n, latitude |-> Deg(16), longitude |-> Deg(108)] : n \in LocationNames}
    \cup {[name |-> n, latitude |-> Deg(16), longitude |-> Deg(108),
            description |-> Str("deep")] : n \in LocationNames}

\* str(Path(__file__).stat().st_mtime) and the server's now()
SourceMtime == Str("mtime of main.py")
ServerNow == [kind |-> "datetime", text |-> "now"]

Outcome(status, stored) == [status |-> status, stored |-> stored]

\* load_locations and save_locations
load_locations == IF locations_file.exists THEN json_load(locations_file.records) ELSE << >>
save_locations(data) == [exists |-> TRUE, records |-> json_dump(data)]

\* the index of the first location of that id, 0 when there is none
LocationIndex(all, id) ==
    IF \E i \in DOMAIN all : all[i].id = id
    THEN CHOOSE i \in DOMAIN all :
            /\ all[i].id = id
            /\ \A j \in 1..(i - 1) : all[j].id # id
    ELSE 0

\* main.py 264-277: the body itself is stored, with its id and created_at
\* set
json_create_location(locations, location, id) ==
    Outcome(200, save_locations(
        Append(locations, [id |-> id, created_at |-> SourceMtime] @@ location)))

\* main.py 280-292: the body replaces the stored object, its id set
json_update_location(locations, location_id, location) ==
    LET i == LocationIndex(locations, location_id)
    IN  IF i = 0 THEN Outcome(404, locations_file)
        ELSE Outcome(200, save_locations(
                 [locations EXCEPT ![i] = [id |-> location_id] @@ location]))

\* main.py 295-303: the list without that id is saved, whatever it held
json_delete_location(locations, location_id) ==
    Outcome(200, save_locations(SelectSeq(locations, LAMBDA loc : loc.id # location_id)))

\* location.get(key, old) into a column
Merged(location, key, old) == IF key \in DOMAIN location THEN NotNull(location[key]) ELSE old

\* main_db.py 260-273
db_create_location(rows, location, id) ==
    Outcome(200, Append(rows,
        [id |-> id,
         name |-> NotNull(location.name),
         latitude |-> NotNull(location.latitude),
         longitude |-> NotNull(location.longitude),
         description |-> Merged(location, "description", None),
         created_at |-> NotNull(ServerNow)]))

\* main_db.py 276-292
db_update_location(rows, location_id, location) ==
    LET i == LocationIndex(rows, location_id)
    IN  IF i = 0 THEN Outcome(404, rows)
        ELSE Outcome(200,
                 [rows EXCEPT ![i] =
                     [id |-> rows[i].id,
                      name |-> Merged(location, "name", rows[i].name),
                      latitude |-> Merged(location, "latitude", rows[i].latitude),
                      longitude |-> Merged(location, "longitude", rows[i].longitude),
                      description |-> Merged(location, "description", rows[i].description),
                      created_at |-> rows[i].created_at]])

\* main_db.py 295-307
db_delete_location(rows, location_id) ==
    LET i == LocationIndex(rows, location_id)
    IN  IF i = 0 THEN Outcome(404, rows) ELSE Outcome(200, RemoveAt(rows, i))

\* Location.to_dict
location_to_dict(row) ==
    [id |-> row.id,
     name |-> row.name.v,
     latitude |-> float_of_decimal(numeric_8(row.latitude.v)),
     longitude |-> float_of_decimal(numeric_8(row.longitude.v)),
     description |-> IF row.description = None THEN None ELSE row.description.v,
     created_at |-> datetime_to_dict(row.created_at)]

Answer(kind, n, json, db) == [kind |-> kind, n |-> n, json |-> json, db |-> db]

\* POST /api/locations of both services
create_location(location) ==
    LET n == created + 1
        json == json_create_location(load_locations, location, JsonId(n))
        db == db_create_location(locations_table, location, DbId(n))
    IN  /\ created < MaxLocations
        /\ created' = n
        /\ locations_file' = json.stored
        /\ locations_table' = db.stored
        /\ answer' = Answer("create", n, json.status, db.status)

\* PUT /api/locations/{location_id} of both services
update_location(n, location) ==
    LET json == json_update_location(load_locations, JsonId(n), location)
        db == db_update_location(locations_table, DbId(n), location)
    IN  /\ locations_file' = json.stored
        /\ locations_table' = db.stored
        /\ answer' = Answer("update", n, json.status, db.status)
        /\ UNCHANGED created

\* DELETE /api/locations/{location_id} of both services
delete_location(n) ==
    LET json == json_delete_location(load_locations, JsonId(n))
        db == db_delete_location(locations_table, DbId(n))
    IN  /\ locations_file' = json.stored
        /\ locations_table' = db.stored
        /\ answer' = Answer("delete", n, json.status, db.status)
        /\ UNCHANGED created

\* GET /api/locations of both services
get_locations ==
    /\ answer' = [kind |-> "list", n |-> 0, json |-> 200, db |-> 200,
                  json_locations |-> load_locations,
                  db_locations |-> [i \in DOMAIN locations_table |->
                                       location_to_dict(locations_table[i])]]
    /\ UNCHANGED <<locations_file, locations_table, created>>

\* the values of the variables a specification does not exercise
IdleImage == [kind |-> "idle"]
NoOriginals == [f \in Filenames |-> NoOriginal]
NoThumbnails == [p \in ThumbPaths |-> NoThumbnail]
NoFishes == << >>

InitConvert ==
    /\ value \in TagValues
    /\ result = NotCalled
    /\ image = IdleImage
    /\ metadata = NotCalled
    /\ gps_data = NotCalled
    /\ lat = NotCalled
    /\ lon = NotCalled
    /\ originals = NoOriginals
    /\ thumbnails = NoThumbnails
    /\ clock = 0
    /\ response = NotCalled
    /\ inflight = NoRequests
    /\ picture = IdleImage
    /\ thumb = NotCalled
    /\ directory = << >>
    /\ images_data = NotCalled
    /\ backend = "none"
    /\ started = FALSE
    /\ fishes = NoFishes
    /\ catalog = NoCatalog
    /\ reply = NotCalled
    /\ locations_file = NoCatalog
    /\ locations_table = << >>
    /\ created = 0
    /\ answer = NotCalled

\* one call of convert_to_degrees(value)
Convert ==
    /\ result = NotCalled
    /\ result' = convert_to_degrees(value)
    /\ UNCHANGED <<value, extractVars, serviceVars, raceVars, resizeVars, batchVars, locationVars, catalogVars>>

SpecConvert == InitConvert /\ [][Convert]_vars

InitExtract ==
    /\ value = None
    /\ result = NotCalled
    /\ image \in Images
    /\ metadata = NotCalled
    /\ gps_data = NotCalled
    /\ lat = NotCalled
    /\ lon = NotCalled
    /\ originals = NoOriginals
    /\ thumbnails = NoThumbnails
    /\ clock = 0
    /\ response = NotCalled
    /\ inflight = NoRequests
    /\ picture = IdleImage
    /\ thumb = NotCalled
    /\ directory = << >>
    /\ images_data = NotCalled
    /\ backend = "none"
    /\ started = FALSE
    /\ fishes = NoFishes
    /\ catalog = NoCatalog
    /\ reply = NotCalled
    /\ locations_file = NoCatalog
    /\ locations_table = << >>
    /\ created = 0
    /\ answer = NotCalled

\* one call of extract_image_metadata(image); gps_data, lat and lon are the
\* locals of extract_gps_from_exif where the call reaches them
Extract ==
    /\ metadata = NotCalled
    /\ metadata' = extract_image_metadata(image)
    /\ gps_data' = IF image.decodable /\ image.exif.kind # "corrupt"
                   THEN extract_gps_from_exif(image) ELSE NotCalled
    /\ lat' = IF ConvertReached(image)
              THEN convert_to_degrees(image.exif.gps.GPSLatitude) ELSE NotCalled
    /\ lon' = IF ConvertReached(image)
              THEN convert_to_degrees(image.exif.gps.GPSLongitude) ELSE NotCalled
    /\ UNCHANGED <<image, convertVars, serviceVars, raceVars, resizeVars, batchVars, locationVars, catalogVars>>

SpecExtract == InitExtract /\ [][Extract]_vars

Init ==
    /\ value = None
    /\ result = NotCalled
    /\ image = IdleImage
    /\ metadata = NotCalled
    /\ gps_data = NotCalled
    /\ lat = NotCalled
    /\ lon = NotCalled
    /\ originals = NoOriginals
    /\ thumbnails = NoThumbnails
    /\ clock = 0
    /\ response = NotCalled
    /\ inflight = NoRequests
    /\ picture = IdleImage
    /\ thumb = NotCalled
    /\ directory = << >>
    /\ images_data = NotCalled
    /\ backend = "none"
    /\ started = FALSE
    /\ fishes = NoFishes
    /\ catalog = NoCatalog
    /\ reply = NotCalled
    /\ locations_file = NoCatalog
    /\ locations_table = << >>
    /\ created = 0
    /\ answer = NotCalled

outsideCache == <<convertVars, extractVars, raceVars, resizeVars, batchVars, locationVars, catalogVars>>

Next ==
    \/ \E f \in Filenames : get_thumbnail(f) /\ UNCHANGED outsideCache
    \/ \E f \in Filenames, d \in BOOLEAN :
          PlaceOriginal(f, d) /\ UNCHANGED outsideCache
    \/ \E f \in Filenames : RemoveOriginal(f) /\ UNCHANGED outsideCache
    \/ \E f \in Filenames, t \in 0..MaxTime :
          TouchOriginal(f, t) /\ UNCHANGED outsideCache
    \/ Tick /\ UNCHANGED outsideCache

Spec == Init /\ [][Next]_vars

\* every original is in place and nothing is cached yet
InitRace ==
    /\ value = None
    /\ result = NotCalled
    /\ image = IdleImage
    /\ metadata = NotCalled
    /\ gps_data = NotCalled
    /\ lat = NotCalled
    /\ lon = NotCalled
    /\ originals \in [Filenames -> {[exists |-> TRUE, mtime |-> 0, decodable |-> d] : d \in BOOLEAN}]
    /\ thumbnails = NoThumbnails
    /\ clock = 0
    /\ response = NotCalled
    /\ inflight = NoRequests
    /\ picture = IdleImage
    /\ thumb = NotCalled
    /\ directory = << >>
    /\ images_data = NotCalled
    /\ backend = "none"
    /\ started = FALSE
    /\ fishes = NoFishes
    /\ catalog = NoCatalog
    /\ reply = NotCalled
    /\ locations_file = NoCatalog
    /\ locations_table = << >>
    /\ created = 0
    /\ answer = NotCalled

outsideRace == <<convertVars, extractVars, resizeVars, batchVars, locationVars, catalogVars>>

NextRace ==
    \/ \E w \in Workers, f \in Filenames : Begin(w, f) /\ UNCHANGED outsideRace
    \/ \E w \in Workers : OpenTarget(w) /\ UNCHANGED outsideRace
    \/ \E w \in Workers : FinishWrite(w) /\ UNCHANGED outsideRace
    \/ \E w \in Workers : Send(w) /\ UNCHANGED outsideRace
    \/ \E w \in Workers : Return(w) /\ UNCHANGED outsideRace

SpecRace == InitRace /\ [][NextRace]_vars

InitResize ==
    /\ value = None
    /\ result = NotCalled
    /\ image = IdleImage
    /\ metadata = NotCalled
    /\ gps_data = NotCalled
    /\ lat = NotCalled
    /\ lon = NotCalled
    /\ originals = NoOriginals
    /\ thumbnails = NoThumbnails
    /\ clock = 0
    /\ response = NotCalled
    /\ inflight = NoRequests
    /\ picture \in Pictures
    /\ thumb = NotCalled
    /\ directory = << >>
    /\ images_data = NotCalled
    /\ backend = "none"
    /\ started = FALSE
    /\ fishes = NoFishes
    /\ catalog = NoCatalog
    /\ reply = NotCalled
    /\ locations_file = NoCatalog
    /\ locations_table = << >>
    /\ created = 0
    /\ answer = NotCalled

\* one call of generate_thumbnail on picture
Resize ==
    /\ thumb = NotCalled
    /\ thumb' = rendered(picture)
    /\ UNCHANGED <<picture, convertVars, extractVars, serviceVars, raceVars, batchVars, locationVars, catalogVars>>

SpecResize == InitResize /\ [][Resize]_vars

InitBatch ==
    /\ value = None
    /\ result = NotCalled
    /\ image = IdleImage
    /\ metadata = NotCalled
    /\ gps_data = NotCalled
    /\ lat = NotCalled
    /\ lon = NotCalled
    /\ originals = NoOriginals
    /\ thumbnails = NoThumbnails
    /\ clock = 0
    /\ response = NotCalled
    /\ inflight = NoRequests
    /\ picture = IdleImage
    /\ thumb = NotCalled
    /\ directory \in Directories
    /\ images_data = NotCalled
    /\ backend = "none"
    /\ started = FALSE
    /\ fishes = NoFishes
    /\ catalog = NoCatalog
    /\ reply = NotCalled
    /\ locations_file = NoCatalog
    /\ locations_table = << >>
    /\ created = 0
    /\ answer = NotCalled

\* one call of process_images_directory on directory
Batch ==
    /\ images_data = NotCalled
    /\ images_data' = process_images_directory(directory)
    /\ catalog' = save_metadata([i \in DOMAIN images_data'.items |-> images_data'.items[i].d])
    /\ UNCHANGED <<directory, convertVars, extractVars, serviceVars, raceVars, resizeVars,
                   backend, started, fishes, reply, locationVars>>

SpecBatch == InitBatch /\ [][Batch]_vars

\* either service before its startup event, over any FISHES_DIR
InitCatalog ==
    /\ value = None
    /\ result = NotCalled
    /\ image = IdleImage
    /\ metadata = NotCalled
    /\ gps_data = NotCalled
    /\ lat = NotCalled
    /\ lon = NotCalled
    /\ originals = NoOriginals
    /\ thumbnails = NoThumbnails
    /\ clock = 0
    /\ response = NotCalled
    /\ inflight = NoRequests
    /\ picture = IdleImage
    /\ thumb = NotCalled
    /\ directory = << >>
    /\ images_data = NotCalled
    /\ backend \in {"json", "db"}
    /\ started = FALSE
    /\ fishes \in [CatalogNames -> Contents \cup {NoFile}]
    /\ catalog = IF backend = "db" THEN EmptyTable ELSE NoCatalog
    /\ reply = NotCalled
    /\ locations_file = NoCatalog
    /\ locations_table = << >>
    /\ created = 0
    /\ answer = NotCalled

outsideCatalog ==
    <<convertVars, extractVars, originals, clock, response, raceVars, resizeVars, batchVars, locationVars>>

NextCatalog ==
    \/ startup_event /\ UNCHANGED outsideCatalog
    \/ \E filename \in UploadFilenames, t \in {"image", "text"}, holds \in Contents :
          upload_image(filename, t, holds) /\ UNCHANGED outsideCatalog
    \/ reprocess_images /\ UNCHANGED outsideCatalog
    \/ \E f \in CatalogNames, body \in GpsBodies :
          update_image_gps(f, body) /\ UNCHANGED outsideCatalog
    \/ \E f \in CatalogNames : delete_image(f) /\ UNCHANGED outsideCatalog

SpecCatalog == InitCatalog /\ [][NextCatalog]_vars

\* The catalog together with the thumbnail cache.  originals is FISHES_DIR
\* as get_thumbnail sees it: what os.stat tells of the files of fishes, all
\* of them written at time 0.
StatOf(holds) ==
    IF holds = NoFile THEN NoOriginal
    ELSE [exists |-> TRUE, mtime |-> 0, decodable |-> holds # "unreadable"]
Stats(dir) == [f \in Filenames |-> IF f \in DOMAIN dir THEN StatOf(dir[f]) ELSE NoOriginal]

GalleryNames == {File("a", ".png"), File("a", ".jpg")}
FilesBefore == [GalleryNames -> {NoFile, "plain"}]
GalleryBodies == {[latitude |-> Deg(30), longitude |-> Deg(40)]}

InitGallery ==
    /\ value = None
    /\ result = NotCalled
    /\ image = IdleImage
    /\ metadata = NotCalled
    /\ gps_data = NotCalled
    /\ lat = NotCalled
    /\ lon = NotCalled
    /\ fishes \in FilesBefore
    /\ originals = Stats(fishes)
    /\ thumbnails = NoThumbnails
    /\ clock = 0
    /\ response = NotCalled
    /\ inflight = NoRequests
    /\ picture = IdleImage
    /\ thumb = NotCalled
    /\ directory = << >>
    /\ images_data = NotCalled
    /\ backend \in {"json", "db"}
    /\ started = FALSE
    /\ catalog = IF backend = "db" THEN EmptyTable ELSE NoCatalog
    /\ reply = NotCalled
    /\ locations_file = NoCatalog
    /\ locations_table = << >>
    /\ created = 0
    /\ answer = NotCalled

outsideGallery == <<convertVars, extractVars, clock, raceVars, resizeVars, batchVars, locationVars>>

\* every request leaves its answer in reply or in response and clears the
\* other
NextGallery ==
    \/ /\ startup_event
       /\ response' = NotCalled
       /\ UNCHANGED <<originals, outsideGallery>>
    \/ \E filename \in GalleryNames, t \in {"image", "text"}, holds \in {"plain", "photo"} :
          /\ upload_image(filename, t, holds)
          /\ originals' = Stats(fishes')
          /\ response' = NotCalled
          /\ UNCHANGED outsideGallery
    \/ /\ reprocess_images
       /\ response' = NotCalled
       /\ UNCHANGED <<originals, outsideGallery>>
    \/ \E f \in GalleryNames :
          /\ started
          /\ get_thumbnail(f)
          /\ reply' = NotCalled
          /\ UNCHANGED <<backend, started, fishes, catalog, outsideGallery>>
    \/ \E f \in GalleryNames :
          /\ get_image_details(f)
          /\ response' = NotCalled
          /\ UNCHANGED <<originals, outsideGallery>>
    \/ \E f \in GalleryNames, body \in GalleryBodies :
          /\ update_image_gps(f, body)
          /\ response' = NotCalled
          /\ UNCHANGED <<originals, outsideGallery>>
    \/ \E f \in GalleryNames :
          /\ delete_image(f)
          /\ originals' = Stats(fishes')
          /\ response' = NotCalled
          /\ UNCHANGED outsideGallery

SpecGallery == InitGallery /\ [][NextGallery]_vars

\* both location services, nothing stored yet
InitLocations ==
    /\ value = None
    /\ result = NotCalled
    /\ image = IdleImage
    /\ metadata = NotCalled
    /\ gps_data = NotCalled
    /\ lat = NotCalled
    /\ lon = NotCalled
    /\ originals = NoOriginals
    /\ thumbnails = NoThumbnails
    /\ clock = 0
    /\ response = NotCalled
    /\ inflight = NoRequests
    /\ picture = IdleImage
    /\ thumb = NotCalled
    /\ directory = << >>
    /\ images_data = NotCalled
    /\ backend = "none"
    /\ started = FALSE
    /\ fishes = NoFishes
    /\ catalog = NoCatalog
    /\ reply = NotCalled
    /\ locations_file = NoCatalog
    /\ locations_table = << >>
    /\ created = 0
    /\ answer = NotCalled

outsideLocations ==
    <<convertVars, extractVars, serviceVars, raceVars, resizeVars, batchVars, catalogVars>>

NextLocations ==
    \/ \E location \in LocationBodies :
          create_location(location) /\ UNCHANGED outsideLocations
    \/ \E n \in 1..MaxLocations, location \in LocationBodies :
          update_location(n, location) /\ UNCHANGED outsideLocations
    \/ \E n \in 1..MaxLocations : delete_location(n) /\ UNCHANGED outsideLocations
    \/ get_locations /\ UNCHANGED outsideLocations

SpecLocations == InitLocations /\ [][NextLocations]_vars

\* the upload path of the database service applied to one image: the table
\* is empty, or holds the row of an earlier upload of the same filename
EarlierRows ==
    {<< >>,
     <<new_image(extract_image_metadata(Plain).d)>>,
     <<new_image(extract_image_metadata(Photo(10, 20)).d)>>}

InitRow ==
    /\ value = None
    /\ result = NotCalled
    /\ image \in Images
    /\ metadata = NotCalled
    /\ gps_data = NotCalled
    /\ lat = NotCalled
    /\ lon = NotCalled
    /\ originals = NoOriginals
    /\ thumbnails = NoThumbnails
    /\ clock = 0
    /\ response = NotCalled
    /\ inflight = NoRequests
    /\ picture = IdleImage
    /\ thumb = NotCalled
    /\ directory = << >>
    /\ images_data = NotCalled
    /\ backend = "db"
    /\ started = TRUE
    /\ fishes = NoFishes
    /\ catalog \in {commit_images(rows) : rows \in EarlierRows}
    /\ reply = NotCalled
    /\ locations_file = NoCatalog
    /\ locations_table = << >>
    /\ created = 0
    /\ answer = NotCalled

\* main_db.py 191-224 once the file is written: extraction, the row updated
\* or inserted, the commit, and to_dict of the refreshed row in the answer
StoreRow ==
    LET md == extract_image_metadata(image).d
        stored == db_upsert(query_images, md.filename, md)
    IN  /\ metadata = NotCalled
        /\ metadata' = Dict(md)
        /\ stored.kind = "list"
        /\ catalog' = commit_images(stored.items)
        /\ reply' = Dict(to_dict(stored.items[IndexOf(stored.items, md.filename)]))
        /\ UNCHANGED <<image, gps_data, lat, lon, convertVars, serviceVars, raceVars,
                       resizeVars, batchVars, locationVars, backend, started, fishes>>

SpecRow == InitRow /\ [][StoreRow]_vars

(***************************************************************************)
(* Properties of convert_to_degrees (SpecConvert).                         *)
(***************************************************************************)
Converted == result # NotCalled
IsRational == value.kind = "rational"
Den(i) == value.c[i].denominator
Num(i) == value.c[i].numerator

\* n/d in units of 1/Scale, a zero denominator counting as 0
UnitsOrZero(n, d, perDegree) == IF d = 0 THEN 0 ELSE (n * (Scale \div perDegree)) \div d

\* C4: a rational 3-tuple with one or more zero denominators is converted
\* without an exception, each zero-denominator component counting as 0 and
\* the others as numerator/denominator.
C4_ZeroDenominatorIsZero ==
    (Converted /\ IsRational /\ \E i \in 1..3 : Den(i) = 0) =>
        /\ result.kind # "raise"
        /\ result = Some(Fin(0, UnitsOrZero(Num(1), Den(1), 1)
                                + UnitsOrZero(Num(2), Den(2), 60)
                                + UnitsOrZero(Num(3), Den(3), 3600)))

C4_Witness ==
    /\ Converted /\ IsRational
    /\ Den(1) = 0 /\ Num(1) = 90 /\ Den(2) = 1 /\ Num(2) = 30 /\ Den(3) = 0
    /\ result = Some(Fin(0, Scale \div 2))

\* C7: a rational 3-tuple with non-zero denominators converts to
\* degrees + minutes/60 + seconds/3600; (16, 3, 15.84) gives 16.0544 and
\* (108, 12, 7.92) gives 108.2022.
C7_DmsFormula ==
    (Converted /\ IsRational /\ \A i \in 1..3 : Den(i) # 0) =>
        /\ result.kind = "float"
        /\ result.x.cls = "fin" /\ result.x.h = 0
        \* in units of 1/Scale; every denominator of the model divides Scale/3600
        /\ result.x.v = Num(1) * (Scale \div Den(1))
                        + Num(2) * ((Scale \div 60) \div Den(2))
                        + Num(3) * ((Scale \div 3600) \div Den(3))
        /\ (value = RatTuple(Rational(16, 1), Rational(3, 1), Rational(1584, 100))
               => result.x.v = 160544 * (Scale \div 10000))
        /\ (value = RatTuple(Rational(108, 1), Rational(12, 1), Rational(792, 100))
               => result.x.v = 1082022 * (Scale \div 10000))

C7_Witness ==
    /\ value = RatTuple(Rational(16, 1), Rational(3, 1), Rational(1584, 100))
    /\ result = Some(Fin(0, 5779584))

(***************************************************************************)
(* Properties of extract_image_metadata (SpecExtract).                     *)
(***************************************************************************)
Extracted == metadata # NotCalled
Returned == Extracted /\ metadata.kind = "dict"
Keys == DOMAIN metadata.d
HasNoGpsKeys == Returned /\ "latitude" \notin Keys /\ "longitude" \notin Keys
BothConverted == lat.kind = "float" /\ lon.kind = "float"

\* the decimal value after the hemisphere correction the claims describe
Corrected(conv, ref, flag) ==
    IF ref = Str(flag)
    THEN [cls |-> "fin", h |-> 0 - conv.x.h, v |-> 0 - conv.x.v]
    ELSE conv.x
CorrectedLat == Corrected(lat, image.exif.gps.GPSLatitudeRef, "S")
CorrectedLon == Corrected(lon, image.exif.gps.GPSLongitudeRef, "W")
IsZeroDeg(x) == x.h = 0 /\ x.v = 0
WithinDeg(x, bound) == x.h = 0 /\ x.v >= 0 - bound * Scale /\ x.v <= bound * Scale

\* C1: the returned record has both of latitude and longitude or neither.
C1_PairIsAtomic ==
    Extracted =>
        /\ Returned
        /\ ("latitude" \in Keys) <=> ("longitude" \in Keys)

C1_Witness ==
    /\ HasNoGpsKeys
    /\ lat.kind = "float" /\ WithinDeg(CorrectedLat, 90) /\ ~IsZeroDeg(CorrectedLat)
    /\ lon = None

\* C2: when the corrected latitude and longitude are both 0.0 the record has
\* no coordinates, and no record holds latitude 0.0 with longitude 0.0.
C2_ZeroZeroIsAbsent ==
    Returned =>
        /\ (BothConverted /\ IsZeroDeg(CorrectedLat) /\ IsZeroDeg(CorrectedLon))
              => HasNoGpsKeys
        /\ ~("latitude" \in Keys /\ "longitude" \in Keys
             /\ IsZeroDeg(metadata.d.latitude) /\ IsZeroDeg(metadata.d.longitude))

C2_Witness ==
    /\ HasNoGpsKeys /\ BothConverted
    /\ image.exif.gps.GPSLatitude = RatTuple(Rational(10, 0), ZeroR, ZeroR)
    /\ image.exif.gps.GPSLongitudeRef = Str("W")
    /\ IsZeroDeg(CorrectedLat) /\ IsZeroDeg(CorrectedLon)

\* C3: extract_gps_from_exif returns a pair exactly when both conversions
\* produced a value, the corrected pair is not (0.0, 0.0), the latitude is
\* in [-90, 90] and the longitude in [-180, 180].
C3_AcceptedIff ==
    gps_data # NotCalled =>
        /\ gps_data.kind \in {"dict", "None"}
        /\ gps_data.kind = "dict" <=>
              /\ BothConverted
              /\ ~(IsZeroDeg(CorrectedLat) /\ IsZeroDeg(CorrectedLon))
              /\ WithinDeg(CorrectedLat, 90)
              /\ WithinDeg(CorrectedLon, 180)

C3_Witness ==
    /\ gps_data # NotCalled /\ gps_data.kind = "dict"
    /\ gps_data.d.latitude = Deg(-90) /\ gps_data.d.longitude = Deg(180)

\* a component of the tag value, or the combined decimal, is NaN or infinite
NonFinite(v) ==
    /\ v.kind = "float"
    /\ \/ \E i \in 1..3 : v.c[i].cls \in {"nan", "inf"}
       \/ LET h == v.c[1].h + v.c[2].h \div 60 + v.c[3].h \div 3600
          IN  h > 3600 \/ h < 0 - 3600

\* C5: a NaN or infinite component or combined result, for either
\* coordinate, makes convert_to_degrees yield no value and leaves the record
\* without latitude and longitude.
C5_NonFiniteRejected ==
    (Returned /\ image.exif.kind = "block") =>
        /\ NonFinite(image.exif.gps.GPSLatitude) =>
              (lat \in {None, NotCalled} /\ HasNoGpsKeys)
        /\ NonFinite(image.exif.gps.GPSLongitude) =>
              (lon \in {None, NotCalled} /\ HasNoGpsKeys)

C5_Witness ==
    /\ Returned /\ image.exif.kind = "block"
    /\ image.exif.gps.GPSLatitude = FloatTuple(MaxFloat, MaxFloat, Deg(0))
    /\ lat = None /\ lon = Some(Deg(90))
    /\ HasNoGpsKeys

\* C6: the hemisphere correction negates the converted decimal exactly when
\* the ref is "S" (latitude) or "W" (longitude), whatever the sign of the
\* converted value; any other or missing ref leaves it unchanged.
C6_HemisphereByRef ==
    (gps_data # NotCalled /\ gps_data.kind = "dict") =>
        /\ BothConverted
        /\ gps_data.d.latitude = CorrectedLat
        /\ gps_data.d.longitude = CorrectedLon
        /\ metadata.d.latitude = CorrectedLat
        /\ metadata.d.longitude = CorrectedLon

C6_Witness ==
    /\ Returned /\ lat = Some(Deg(10))
    /\ image.exif.gps.GPSLatitudeRef = Str("S")
    /\ "latitude" \in Keys /\ metadata.d.latitude = Deg(-10)

ErrorKeys == {"filename", "path", "error"}

\* C8: extract_image_metadata always returns; when the image cannot be
\* opened or its EXIF block cannot be read the record holds exactly
\* filename, path and error.
C8_ErrorRecord ==
    Extracted =>
        /\ Returned
        /\ (~image.decodable \/ image.exif.kind = "corrupt") => Keys = ErrorKeys
        /\ "error" \in Keys => Keys = ErrorKeys

C8_Witness ==
    /\ Returned /\ image.exif.kind = "corrupt" /\ Keys = ErrorKeys

TagPresent(t) == image.exif.kind = "block" /\ image.exif.tags[t] # None
StringOf(raw) == IF raw.kind = "str" THEN raw.s ELSE ToString(raw.n)
TagKey ==
    [Make |-> "make", Model |-> "model", DateTime |-> "datetime",
     DateTimeOriginal |-> "datetimeoriginal"]

\* C9: each of Make, Model, DateTime, DateTimeOriginal is in the record,
\* under its lower-cased name and as a string, exactly when the EXIF holds
\* it; an image without EXIF gives exactly filename, path, width, height.
C9_TagsCopied ==
    Returned =>
        /\ \A t \in DOMAIN TagKey :
              /\ TagKey[t] \in Keys <=> TagPresent(t)
              /\ TagPresent(t) => metadata.d[TagKey[t]] = StringOf(image.exif.tags[t])
        /\ (image.decodable /\ image.exif.kind = "none")
              => Keys = {"filename", "path", "width", "height"}

C9_Witness ==
    /\ Returned /\ image.decodable /\ image.exif.kind = "none"
    /\ Keys = {"filename", "path", "width", "height"}

C9_WitnessTags ==
    /\ Returned /\ TagPresent("Model") /\ ~TagPresent("Make")
    /\ metadata.d.model = "7" /\ "make" \notin Keys

\* C19: no record produced by extraction has manually_tagged = true.
C19_ExtractionNeverTags ==
    Returned => ("manually_tagged" \notin Keys \/ metadata.d.manually_tagged # TRUE)

\* a record that extraction gave coordinates
C19_Witness ==
    /\ Returned
    /\ "latitude" \in Keys /\ "longitude" \in Keys
    /\ "manually_tagged" \notin Keys

C10_WitnessStale ==
    /\ response.kind = "thumbnail" /\ response.status = 200
    /\ response.generate_called
    /\ response.body.mtime = clock
    /\ clock > originals[response.filename].mtime

(***************************************************************************)
(* A request step of the thumbnail service, seen from the state before it: *)
(* the file asked for, the original and the artifact at its cache path.    *)
(***************************************************************************)
Requested == response'.filename
OriginalBefore == originals[Requested]
ArtifactBefore == thumbnails[thumbnail_path(Requested)]
\* the artifact at the cache path is a whole rendition of the requested file
RenderedBefore ==
    /\ ArtifactBefore.exists /\ ArtifactBefore.complete
    /\ ArtifactBefore.source = Requested
\* the step answers from the cache: same bytes, nothing written
ServedFromCache ==
    /\ response'.status = 200 /\ ~response'.generate_called
    /\ response'.body = ArtifactBefore
    /\ thumbnails' = thumbnails

C11_LaterMtimeRegenerates ==
    [][ (response'.kind = "thumbnail" /\ RenderedBefore /\ OriginalBefore.exists
            /\ OriginalBefore.decodable
            /\ ArtifactBefore.mtime >= ArtifactBefore.source_mtime
            /\ OriginalBefore.mtime > ArtifactBefore.source_mtime) =>
          response'.generate_called
      ]_vars

C12_FailureLeavesNoArtifact ==
    (response.kind = "thumbnail" /\ response.generate_called /\ response.status # 200) =>
        LET f == response.filename
            th == thumbnails[thumbnail_path(f)]
        IN  /\ response.status = 500
            /\ th.exists => th.complete
            /\ ~thumbnail_valid(th, originals[f])

\* C15: a thumbnail request for a filename whose original does not exist
\* fails with 404 whether or not an artifact is cached for it, and creates,
\* changes and serves no artifact.
C15_MissingOriginalIs404 ==
    [][ (response'.kind = "thumbnail" /\ ~OriginalBefore.exists) =>
          /\ response'.status = 404
          /\ ~response'.generate_called
          /\ response'.body = NoThumbnail
          /\ thumbnails' = thumbnails
      ]_vars

\* a 404 for a filename whose artifact is still in the cache
C15_Witness ==
    /\ response.kind = "thumbnail" /\ response.status = 404
    /\ ~originals[response.filename].exists
    /\ thumbnails[thumbnail_path(response.filename)].exists
    /\ thumbnails[thumbnail_path(response.filename)].source = response.filename

\* the consequence C14 draws, on its own: a request for one original is
\* never answered with an artifact rendered from a different original
C14_ServedFromOwnOriginal ==
    (response.kind = "thumbnail" /\ response.status = 200) =>
        response.body.source = response.filename

\* C14: the cache path is a function of the filename that no two distinct
\* originals share (a.png and a.jpg included), so that a request for one
\* original is never answered with an artifact rendered from another.
C14_OneArtifactPerOriginal ==
    (response.kind = "thumbnail" /\ response.status = 200) =>
        /\ \A g \in Filenames \ {response.filename} :
              originals[g].exists => thumbnail_path(g) # thumbnail_path(response.filename)
        /\ response.body.source = response.filename

(***************************************************************************)
(* Properties of concurrent thumbnail requests (SpecRace).                 *)
(***************************************************************************)
\* the part of C13 about what a response carries: no request is answered
\* with a truncated artifact
C13_NoTruncatedRead ==
    \A w \in Workers :
        (inflight[w].pc = "done" /\ inflight[w].status = 200) => inflight[w].served.complete

\* C13: under any interleaving of concurrent thumbnail requests the artifact
\* at a cache path is at every instant absent or complete, the last writer's
\* rendition is what remains, and no response carries a truncated artifact.
C13_ArtifactAbsentOrComplete ==
    /\ \A p \in ThumbPaths : thumbnails[p].exists => thumbnails[p].complete
    /\ C13_NoTruncatedRead

(***************************************************************************)
(* Properties of the rendered thumbnail (SpecResize).                      *)
(***************************************************************************)
Saved == thumb # NotCalled /\ thumb.ok

\* C16: a thumbnail is at most 400 wide and 400 high, never larger than its
\* source in either dimension (a source inside 400 x 400 keeps its size),
\* and has the aspect ratio of the source up to the rounding of one
\* dimension to a whole number of pixels (at least 1).
C16_ThumbnailBox ==
    Saved =>
        /\ 1 <= thumb.width /\ thumb.width <= 400
        /\ 1 <= thumb.height /\ thumb.height <= 400
        /\ thumb.width <= picture.width /\ thumb.height <= picture.height
        /\ (picture.width <= 400 /\ picture.height <= 400) =>
              (thumb.width = picture.width /\ thumb.height = picture.height)
        /\ (picture.width > 400 \/ picture.height > 400) =>
              (thumb.width = 400 \/ thumb.height = 400)
        /\ Abs(thumb.width * picture.height - thumb.height * picture.width)
              < Max(picture.width, picture.height)

\* a source outside the box whose scaled height is not a whole number
C16_Witness ==
    /\ Saved
    /\ picture.width = 1000 /\ picture.height = 401
    /\ thumb.width = 400 /\ thumb.height = 160

\* a source so flat that its scaled height is rounded up to one pixel
C16_WitnessFlat ==
    /\ Saved
    /\ picture.width = 4000 /\ picture.height = 1
    /\ thumb.width = 400 /\ thumb.height = 1

(***************************************************************************)
(* Properties of process_images_directory (SpecBatch).                     *)
(***************************************************************************)
Processed == images_data.kind = "list"
ImageSuffixes == {".jpg", ".JPG", ".jpeg", ".JPEG", ".png", ".PNG", ".heic", ".HEIC"}
RecordsOf(name) == {j \in DOMAIN images_data.items : images_data.items[j].d.filename = name}

\* C17: process_images_directory returns exactly one record for every entry
\* whose extension is .jpg, .jpeg, .png or .heic in any case and none for any
\* other entry; an entry that cannot be decoded yields an error record and
\* the entries after it are still processed.
C17_OneRecordPerImageFile ==
    Processed =>
        /\ \A i \in DOMAIN directory :
              Cardinality(RecordsOf(directory[i].name))
                 = IF directory[i].name.suffix \in ImageSuffixes THEN 1 ELSE 0
        /\ \A j \in DOMAIN images_data.items :
              \E i \in DOMAIN directory : images_data.items[j].d.filename = directory[i].name
        /\ \A i \in DOMAIN directory, j \in DOMAIN images_data.items :
              images_data.items[j].d.filename = directory[i].name =>
                 ("error" \in DOMAIN images_data.items[j].d <=> ~directory[i].holds.decodable)

\* an undecodable .jpg listed first, an upper-case .JPG after it: two
\* records, the first an error record
C17_Witness ==
    /\ Processed
    /\ Len(directory) = 2 /\ Len(images_data.items) = 2
    /\ ~directory[1].holds.decodable
    /\ directory[2].name.suffix = ".JPG"
    /\ "error" \in DOMAIN images_data.items[1].d
    /\ "latitude" \in DOMAIN images_data.items[2].d

\* an entry that is no image file is passed over
C17_WitnessSkipped ==
    /\ Processed
    /\ Len(directory) = 2 /\ Len(images_data.items) = 1
    /\ directory[1].name.suffix = ".gif"
    /\ images_data.items[1].d.filename = directory[2].name

(***************************************************************************)
(* Properties of the catalog (SpecCatalog).                                *)
(***************************************************************************)
\* the records a catalog holds, as the service reads them
StoredIn(c) == IF backend = "db" THEN c.records ELSE json_load(c.records)
Records == StoredIn(catalog)
Tagged(r) ==
    IF backend = "db" THEN r.manually_tagged = NotNull(TRUE)
    ELSE "manually_tagged" \in DOMAIN r /\ r.manually_tagged = TRUE

\* C18: filename is a unique key of the catalog: after any sequence of
\* startup processing, upload_image, reprocess_images, update_image_gps and
\* delete_image no two stored records have the same filename.
C18_FilenameIsKey ==
    \A i, j \in DOMAIN Records :
        FilenameOf(Records[i]) = FilenameOf(Records[j]) => i = j

\* C20: a stored record has manually_tagged = true only when its current
\* coordinates were set by a manual override made after its last extraction:
\* no step other than update_image_gps leaves a tagged record that was not
\* there, tagged and identical, before the step, so a record that an upload
\* or a reprocessing wrote is not tagged.
C20_TaggedOnlyByOverride ==
    [][ reply'.kind # "gps" =>
          \A i \in DOMAIN StoredIn(catalog') :
              Tagged(StoredIn(catalog')[i]) =>
                  \E j \in DOMAIN Records : Records[j] = StoredIn(catalog')[i]
      ]_vars

\* C20 restricted to the JSON-backed service, where it holds
C20_JsonTaggedOnlyByOverride ==
    [][ (backend = "json" /\ reply'.kind # "gps") =>
          \A i \in DOMAIN StoredIn(catalog') :
              Tagged(StoredIn(catalog')[i]) =>
                  \E j \in DOMAIN Records : Records[j] = StoredIn(catalog')[i]
      ]_vars

\* whether a stored record holds a value under key: the key of a JSON object
\* with a value other than null, a column of a row that is not NULL
HasValue(r, key) ==
    IF backend = "db" THEN r[key] # None
    ELSE key \in DOMAIN r /\ r[key] # None

\* C21: no catalog record is stored half-populated: after any sequence of
\* upload_image, reprocess_images, update_image_gps (with any request body,
\* also one that carries only one of latitude and longitude) and
\* delete_image, every stored record has both a latitude and a longitude
\* value or neither.
C21_BothCoordinatesOrNeither ==
    \A i \in DOMAIN Records :
        HasValue(Records[i], "latitude") <=> HasValue(Records[i], "longitude")

\* C22: every coordinate stored in the catalog is in range, latitude in
\* [-90, 90] and longitude in [-180, 180], and no record stores the pair
\* (0, 0).
C22_StoredCoordinatesValid ==
    \A i \in DOMAIN Records :
        LET r == Records[i]
            la == IF backend = "db" THEN r.latitude.v ELSE r.latitude
            lo == IF backend = "db" THEN r.longitude.v ELSE r.longitude
        IN  /\ HasValue(r, "latitude") => FBetween(-90, la, 90)
            /\ HasValue(r, "longitude") => FBetween(-180, lo, 180)
            /\ (HasValue(r, "latitude") /\ HasValue(r, "longitude")) =>
                   ~(FIsZero(la) /\ FIsZero(lo))

\* C28: an upload_image request that fails (400 for a content type that is
\* no image, 500 for any error while saving or cataloguing) leaves the
\* system as it was: the catalog is unchanged and the originals directory
\* holds the same files with the same contents, also when a file of the
\* upload's name was already there.
C28_FailedUploadChangesNothing ==
    [][ (reply'.kind = "upload" /\ reply'.status \in {400, 500}) =>
          /\ catalog' = catalog
          /\ fishes' = fishes
      ]_vars

\* the part of C28 that holds: a failed upload leaves the catalog as it was,
\* and a refused one (400) the originals too
C28_FailedUploadKeepsCatalog ==
    [][ (reply'.kind = "upload" /\ reply'.status \in {400, 500}) =>
          /\ catalog' = catalog
          /\ reply'.status = 400 => fishes' = fishes
      ]_vars

(***************************************************************************)
(* Properties of the catalog file (SpecBatch).                             *)
(***************************************************************************)
OptionalFields ==
    {"make", "model", "datetime", "datetimeoriginal", "latitude", "longitude", "error"}

\* C23: the JSON catalog round-trips: for every record list that extraction
\* produces, writing it with json.dump (save_metadata) and reading it with
\* load_metadata gives as many records, each with the same latitude and
\* longitude values and with the same optional fields (make, model,
\* datetime, datetimeoriginal, latitude, longitude, error) present and
\* absent as in the record written.
C23_CatalogFileRoundTrip ==
    Processed =>
        /\ catalog.exists
        /\ Len(load_metadata) = Len(images_data.items)
        /\ \A i \in DOMAIN images_data.items :
              LET written == images_data.items[i].d
                  read == load_metadata[i]
              IN  /\ \A k \in OptionalFields : k \in DOMAIN read <=> k \in DOMAIN written
                  /\ \A k \in FloatKeys \cap DOMAIN written : read[k] = written[k]

\* a list of two records written and read: an error record and one with
\* coordinates
C23_Witness ==
    /\ Processed
    /\ Len(load_metadata) = 2
    /\ "error" \in DOMAIN load_metadata[1]
    /\ "latitude" \in DOMAIN load_metadata[2]
    /\ load_metadata[2].latitude = Deg(10)
    /\ load_metadata[2].longitude = Deg(20)
    /\ catalog.records[2].latitude # Deg(10)

(***************************************************************************)
(* Properties of the database upload path (SpecRow).                       *)
(***************************************************************************)
Answered == reply.kind = "dict"

\* C24: the database loses nothing: for every record that extraction
\* produces, storing it through the upload path and reading it back with
\* Image.to_dict yields the same coordinate pair, absent when the record has
\* none; an accepted pair with one component 0.0 comes back with both
\* components present and unchanged.
C24_RowKeepsCoordinates ==
    Answered =>
        \A k \in FloatKeys :
            reply.d[k] = IF k \in DOMAIN metadata.d THEN metadata.d[k] ELSE None

(***************************************************************************)
(* Properties of the catalog with the thumbnail cache (SpecGallery).       *)
(***************************************************************************)
Deleted(r) == r.kind = "delete" /\ r.status = 200

\* what a successful delete_image(X) removes: the first record of X, the
\* original of X and the file at the cache path of X
C27_DeleteRemovesItsOwn ==
    [][ Deleted(reply') =>
          /\ StoredIn(catalog') = RemoveAt(Records, IndexOf(Records, reply'.filename))
          /\ fishes'[reply'.filename] = NoFile
          /\ ~thumbnails'[thumbnail_path(reply'.filename)].exists
      ]_vars

\* C27: a successful delete_image(X) affects only X: it removes the catalog
\* record, the original file and the cache artifact of X and leaves every
\* other catalog record, every other original and the cache artifact of
\* every other original unchanged; get_image_details(X) and get_thumbnail(X)
\* made after it both answer 404.
C27_DeleteAffectsOnlyItsOwn ==
    [][ /\ Deleted(reply') =>
            /\ StoredIn(catalog') = RemoveAt(Records, IndexOf(Records, reply'.filename))
            /\ fishes'[reply'.filename] = NoFile
            /\ ~thumbnails'[thumbnail_path(reply'.filename)].exists
            /\ \A g \in DOMAIN fishes \ {reply'.filename} :
                  /\ fishes'[g] = fishes[g]
                  /\ fishes[g] # NoFile =>
                        thumbnails'[thumbnail_path(g)] = thumbnails[thumbnail_path(g)]
        /\ Deleted(reply) =>
            /\ (reply'.kind = "details" /\ reply'.filename = reply.filename) =>
                  reply'.status = 404
            /\ (response'.kind = "thumbnail" /\ response'.filename = reply.filename) =>
                  response'.status = 404
      ]_vars

\* C30: in the JSON-backed service a successful reprocess_images replaces
\* the whole catalog with freshly extracted records, exactly one for each
\* image file that is in the originals directory at that moment: the records
\* of files no longer there disappear and every manual override made
\* earlier is discarded, so that right after it no record is marked
\* manually_tagged.
C30_ReprocessReplacesCatalog ==
    [][ (reply'.kind = "reprocess" /\ reply'.status = 200) =>
          /\ backend = "json"
          /\ Len(StoredIn(catalog')) = Cardinality(Present)
          /\ \A n \in Present :
                \E i \in DOMAIN StoredIn(catalog') :
                    StoredIn(catalog')[i] = UploadedMetadata[n, fishes[n]]
          /\ \A i \in DOMAIN StoredIn(catalog') :
                /\ StoredIn(catalog')[i].filename \in Present
                /\ "manually_tagged" \notin DOMAIN StoredIn(catalog')[i]
      ]_vars

\* right after a reprocess: one of the two files is gone and the catalog
\* holds the one record of the other, a photo with its extracted position
C30_Witness ==
    /\ reply.kind = "reprocess" /\ reply.status = 200
    /\ Cardinality(Present) = 1
    /\ Len(Records) = 1
    /\ Records[1].filename \in Present
    /\ HasValue(Records[1], "latitude")
    /\ ~Tagged(Records[1])

\* C29: update_image_gps and delete_image for a filename that has no catalog
\* record answer 404 and change nothing: the persisted catalog, the original
\* files and the cached thumbnails are all as before; a file or a thumbnail
\* of that name on disk is not deleted.
C29_UnknownFilenameChangesNothing ==
    [][ reply'.kind \in {"gps", "delete"} =>
          IF IndexOf(Records, reply'.filename) = 0
          THEN /\ reply'.status = 404
               /\ catalog' = catalog
               /\ fishes' = fishes
               /\ thumbnails' = thumbnails
          ELSE reply'.status = 200
      ]_vars

\* a delete answered 404 while a file and a thumbnail of that name are on
\* disk
C29_Witness ==
    /\ reply.kind = "delete" /\ reply.status = 404
    /\ fishes[reply.filename] # NoFile
    /\ thumbnails[thumbnail_path(reply.filename)].exists
    /\ thumbnails[thumbnail_path(reply.filename)].source = reply.filename

\* the same for an override
C29_WitnessGps ==
    /\ reply.kind = "gps" /\ reply.status = 404
    /\ fishes[reply.filename] # NoFile

(***************************************************************************)
(* Properties of the favorite locations (SpecLocations).                   *)
(***************************************************************************)
\* what a service holds, as GET /api/locations lists it
JsonLocations == load_locations
DbLocations == [i \in DOMAIN locations_table |-> location_to_dict(locations_table[i])]

\* a location by what C25 compares: the ordinal of its creation, name,
\* latitude, longitude and description (None when it has none)
Compared(loc) ==
    [n |-> loc.id.n, name |-> loc.name, latitude |-> loc.latitude,
     longitude |-> loc.longitude,
     description |-> IF "description" \in DOMAIN loc THEN loc.description ELSE None]
ComparedSet(locs) == {Compared(locs[i]) : i \in DOMAIN locs}

\* the two services gave the same status to the last request
C25_SameOutcome == answer # NotCalled => answer.json = answer.db

\* the two services hold the same locations
C25_SameLocations == ComparedSet(JsonLocations) = ComparedSet(DbLocations)

\* C25: for the same sequence of favorite-location requests (create, update,
\* delete, list, also update and delete of an id that does not exist) the
\* JSON-backed and the database-backed service give the same success or 404
\* outcome at every step and hold the same set of locations, with the same
\* name, latitude, longitude and description.
C25_ServicesAgree == C25_SameOutcome /\ C25_SameLocations

\* the fields every stored location has to have
LocationShape(loc) ==
    {"id", "name", "latitude", "longitude", "created_at"} \subseteq DOMAIN loc
UniqueIds(locs) == \A i, j \in DOMAIN locs : locs[i].id = locs[j].id => i = j
\* every location that is still stored has the id it had before the step
IdsKept(before, after) ==
    IF Len(after) = Len(before)
    THEN \A i \in DOMAIN after : after[i].id = before[i].id
    ELSE \A i \in DOMAIN after :
            \/ \E j \in DOMAIN before : before[j].id = after[i].id
            \/ after[i].id.n = created'

\* C26: a stored favorite location has the shape {id, name, latitude,
\* longitude, description?, created_at}: after any sequence of
\* create_location, update_location and delete_location whose bodies carry
\* name, latitude and longitude, each stored location has an id that is
\* unique among the locations and unchanged since its creation, and still
\* has its created_at.
C26_LocationShapeKept ==
    [][ /\ UniqueIds(JsonLocations') /\ UniqueIds(DbLocations')
        /\ IdsKept(JsonLocations, JsonLocations') /\ IdsKept(DbLocations, DbLocations')
        /\ \A i \in DOMAIN JsonLocations' : LocationShape(JsonLocations'[i])
        /\ \A i \in DOMAIN DbLocations' :
              /\ LocationShape(DbLocations'[i])
              /\ DbLocations'[i].created_at # None
      ]_vars

\* the part of C26 that holds: ids are unique and kept, and the database
\* service keeps created_at
C26_IdsKept ==
    [][ /\ UniqueIds(JsonLocations') /\ UniqueIds(DbLocations')
        /\ IdsKept(JsonLocations, JsonLocations') /\ IdsKept(DbLocations, DbLocations')
        /\ \A i \in DOMAIN DbLocations' :
              /\ LocationShape(DbLocations'[i])
              /\ DbLocations'[i].created_at # None
      ]_vars

====
